---- MODULE Spec2Model ----
(***************************************************************************)
(* MFKDF: multi-factor key derivation.  A model of setup.key               *)
(* (src/unnamed/part_002), derive.key (src/unnamed/part_000), the factor   *)
(* constructions shipped with them and the kdf defaults (src/src/config.js)*)
(*                                                                         *)
(* Both key() functions are async: every `await` is a point where the      *)
(* function is suspended, so each is modelled as a sequence of steps, one  *)
(* per awaited section, driven by a program counter.                       *)
(*                                                                         *)
(* Buffers are sequences of bytes; a byte is an element of GF(8), so that  *)
(* xor, Shamir sharing and Lagrange interpolation are computed for real.   *)
(***************************************************************************)
EXTENDS Integers, Sequences, FiniteSets, TLC

VARIABLES
    harness,    \* what the environment of this run may supply (see Harness)
    pc,         \* position of the caller / of the running key() call
    factors,    \* setup.key argument `factors`
    options,    \* setup.key argument `options`
    su,         \* locals and result of the running / last setup.key call
    heap,       \* policy objects, by reference
    dv,         \* locals and result of the running / last derive.key call
    calls,      \* factor callbacks invoked by the current key() call, in order
    nDerives,   \* derive.key calls made so far
    kd          \* argument and result of the last kdf() call

vars == <<harness, pc, factors, options, su, heap, dv, calls, nDerives, kd>>

---------------------------------------------------------------------------
(* Bounds of the model *)

MaxFactors == 3      \* longest factor list handed to setup.key
MaxEntropy == 2      \* largest factor.entropy
MaxDerives == 2      \* derive.key calls in a row, each on the policy of the last

---------------------------------------------------------------------------
(* JavaScript values *)

Undefined == [t |-> "undefined"]
Null == [t |-> "null"]
Str(s) == [t |-> "string", s |-> s]
\* a number is carried as twice its value, so that 1.5 is a number and not an integer
Num(n) == [t |-> "number", twice |-> 2 * n]
Half(k) == [t |-> "number", twice |-> k]
Buf(b) == [t |-> "buffer", b |-> b]
Arr(a) == [t |-> "array", a |-> a]

IsString(v) == v.t = "string"
IsBuffer(v) == v.t = "buffer"
IsFunction(v) == v.t = "function"
IsInteger(v) == v.t = "number" /\ v.twice % 2 = 0
NumVal(v) == v.twice \div 2

RECURSIVE SumSeq(_)
SumSeq(s) == IF s = <<>> THEN 0 ELSE Head(s) + SumSeq(Tail(s))

---------------------------------------------------------------------------
(* Bytes: GF(8), x^3 + x + 1 *)

GFExp == <<1, 2, 4, 3, 6, 7, 5>>
GFOrder == Len(GFExp)
Byte == 0..GFOrder

XorBit(a, b, w) == ((((a \div w) % 2) + ((b \div w) % 2)) % 2) * w
XorByte(a, b) == XorBit(a, b, 1) + XorBit(a, b, 2) + XorBit(a, b, 4)

GFLog(a) == CHOOSE k \in 1..GFOrder : GFExp[k] = a
GFMul(a, b) ==
    IF a = 0 \/ b = 0 THEN 0
    ELSE GFExp[((GFLog(a) + GFLog(b) - 2) % GFOrder) + 1]
GFInv(a) == GFExp[((2 * GFOrder - GFLog(a) + 1) % GFOrder) + 1]

ZeroBytes(n) == [k \in 1..n |-> 0]

\* left-pad with zero bytes to length n (Buffer.concat([Buffer.alloc(k), b]))
PadLeft(b, n) == IF Len(b) >= n THEN b ELSE ZeroBytes(n - Len(b)) \o b

\* the last n bytes of b
LastBytes(b, n) == IF Len(b) <= n THEN b ELSE SubSeq(b, Len(b) - n + 1, Len(b))

---------------------------------------------------------------------------
(* Library calls of setup.key and derive.key *)

\* buffer-xor: a[i] ^ b[i] over the longer length; a missing byte reads as
\* undefined, and undefined ^ x is x
xor(a, b) ==
    LET n == IF Len(a) >= Len(b) THEN Len(a) ELSE Len(b)
        at(s, i) == IF i <= Len(s) THEN s[i] ELSE 0
    IN  [i \in 1..n |-> XorByte(at(a, i), at(b, i))]

\* @panva/hkdf  hkdf('sha512', ikm, '', '', size): a fixed pseudo-random
\* function of the input key material, `size` bytes long
hkdf(ikm, size) ==
    [k \in 1..size |->
        (SumSeq([j \in 1..Len(ikm) |-> (j + k) * (ikm[j] + 1)]) + 3 * k + Len(ikm))
            % (GFOrder + 1)]

\* buffer.toString('base64') and Buffer.from(s, 'base64'): the text is a
\* sequence of characters, here character codes above the byte range
toBase64(b) == [k \in 1..Len(b) |-> b[k] + 65]
fromBase64(s) == [k \in 1..Len(s) |-> s[k] - 65]

\* crypto.randomBytes(n) may return any n bytes the generator can produce
RECURSIVE RandomBytes(_, _)
RandomBytes(rng, n) ==
    IF n <= 0 THEN {<<>>}
    ELSE {<<b>> \o r : b \in rng, r \in RandomBytes(rng, n - 1)}

RECURSIVE RandomBuffers(_, _, _)
RandomBuffers(rng, n, count) ==
    IF count <= 0 THEN {<<>>}
    ELSE {<<b>> \o r : b \in RandomBytes(rng, n), r \in RandomBuffers(rng, n, count - 1)}

---------------------------------------------------------------------------
(* Secret sharing (../secrets/share, combine, recover): Shamir sharing,   *)
(* byte by byte, share i being the polynomial's value at x = i.           *)

\* value at x of the polynomial with coefficients c[1] + c[2] x + ...
RECURSIVE PolyEval(_, _)
PolyEval(c, x) ==
    IF c = <<>> THEN 0 ELSE XorByte(Head(c), GFMul(x, PolyEval(Tail(c), x)))

\* shares of a threshold strictly between 1 and n carry one leading zero byte
ShareExt(t, n) == IF 1 < t /\ t < n THEN 1 ELSE 0

\* share(secret, t, n), with the t-1 random coefficient buffers it drew
share(secret, t, n, coefs) ==
    [i \in 1..n |->
        ZeroBytes(ShareExt(t, n)) \o
        [b \in 1..Len(secret) |->
            PolyEval(<<secret[b]>> \o [k \in 1..(t - 1) |-> coefs[k][b]], i)]]

\* the indices of the shares that are buffers
Present(shares) == {i \in 1..Len(shares) : IsBuffer(shares[i])}

RECURSIVE GFProduct(_, _)
GFProduct(f, S) ==
    IF S = {} THEN 1
    ELSE LET j == CHOOSE j \in S : TRUE IN GFMul(f[j], GFProduct(f, S \ {j}))

RECURSIVE XorSum(_, _)
XorSum(f, S) ==
    IF S = {} THEN 0
    ELSE LET j == CHOOSE j \in S : TRUE IN XorByte(f[j], XorSum(f, S \ {j}))

\* Lagrange interpolation at x through the points (i, y[i]), i \in P
Lagrange(y, P, x) ==
    XorSum([i \in P |->
                GFMul(y[i],
                      GFProduct([j \in P \ {i} |->
                                    GFMul(XorByte(x, j), GFInv(XorByte(i, j)))],
                                P \ {i}))],
           P)

ShareWidth(shares) ==
    LET P == Present(shares)
    IN  IF P = {} THEN 0
        ELSE CHOOSE w \in {Len(shares[i].b) : i \in P} :
                \A i \in P : Len(shares[i].b) <= w

\* the polynomial through the present shares, evaluated at x, byte by byte
Interpolate(shares, x) ==
    LET P == Present(shares)
        w == ShareWidth(shares)
    IN  [b \in 1..w |-> Lagrange([i \in P |-> PadLeft(shares[i].b, w)[b]], P, x)]

\* combine(shares, t, n): the secret, without the shares' leading zero bytes
combine(shares, t, n) ==
    LET s == Interpolate(shares, 0)
    IN  LastBytes(s, Len(s) - ShareExt(t, n))

\* recover(shares, t, n): all n shares, the missing ones interpolated
recover(shares, t, n) ==
    [i \in 1..n |-> IF IsBuffer(shares[i]) THEN shares[i].b ELSE Interpolate(shares, i)]

---------------------------------------------------------------------------
(* Key derivation functions *)

\* src/src/config.js: module.exports.kdf
defaults_kdf_weak ==
    [size |-> 32, kdf |-> "argon2id",
     pbkdf2rounds |-> 100000, pbkdf2digest |-> "sha256",
     bcryptrounds |-> 10,
     scryptcost |-> 16384, scryptblocksize |-> 8, scryptparallelism |-> 1,
     argon2time |-> 2, argon2mem |-> 24576, argon2parallelism |-> 1]
defaults_kdf ==
    [size |-> 32, kdf |-> "argon2id",
     pbkdf2rounds |-> 310000, pbkdf2digest |-> "sha256",
     bcryptrounds |-> 10,
     scryptcost |-> 16384, scryptblocksize |-> 8, scryptparallelism |-> 1,
     argon2time |-> 2, argon2mem |-> 24576, argon2parallelism |-> 1]

\* Object.assign(Object.assign({}, defs), opts): the options given win
Assign(defs, opts) ==
    [k \in DOMAIN defs \cup DOMAIN opts |-> IF k \in DOMAIN opts THEN opts[k] ELSE defs[k]]

\* the parameters the chosen algorithm reads
KdfParams(o) ==
    IF o.kdf = "pbkdf2" THEN [rounds |-> o.pbkdf2rounds, digest |-> o.pbkdf2digest]
    ELSE IF o.kdf = "bcrypt" THEN [rounds |-> o.bcryptrounds]
    ELSE IF o.kdf = "scrypt"
        THEN [rounds |-> o.scryptcost, blocksize |-> o.scryptblocksize,
              parallelism |-> o.scryptparallelism]
    ELSE [rounds |-> o.argon2time, memory |-> o.argon2mem,
          parallelism |-> o.argon2parallelism]

\* setup/kdf: the policy's kdf record, defaults filled in
kdfSetup(o) ==
    LET m == Assign(defaults_kdf, o) IN [type |-> m.kdf, params |-> KdfParams(m)]

\* kdf(input, salt, size, spec): a key of `size` bytes; the primitive is a
\* one-way function, so two keys are equal exactly when all its inputs are
kdf(input, salt, size, spec) ==
    [input |-> input, salt |-> salt, size |-> size, type |-> spec.type, params |-> spec.params]

\* kdf(input, salt, options) of test/kdf.js: options over the defaults
kdfOptions(input, salt, o) ==
    LET m == Assign(defaults_kdf, o)
    IN  kdf(input, salt, m.size, [type |-> m.kdf, params |-> KdfParams(m)])

---------------------------------------------------------------------------
(* setup.key(factors, options)                     src/unnamed/part_002   *)

Get(o, k) == IF k \in DOMAIN o THEN o[k] ELSE Undefined

\* ../defaults  key: the defaults documented on setup.key
defaults_key == defaults_kdf

Function(behaviour) == [t |-> "function", does |-> behaviour]

\* `await callback(...)`: the callback is started and the caller goes on only
\* when it has completed; both events go to the log of callback calls
Started(log, fn, i, key) ==
    Append(log, [fn |-> fn, i |-> i, key |-> key, ev |-> "start"])
Awaited(log, fn, i, key) ==
    log \o <<[fn |-> fn, i |-> i, key |-> key, ev |-> "start"],
             [fn |-> fn, i |-> i, key |-> key, ev |-> "end"]>>

\* what a setup factor's params({ key }) returns: its public parameters
SetupParamsResult(factor, key) == [counter |-> 0]

\* what a setup factor's output() returns
SetupOutputResult(factor) == [entropy |-> factor.entropy]

\* lines 99-114: the first fault of one factor, or "none"
FactorFault(f) ==
    IF ~IsString(f.type) THEN "TypeError"
    ELSE IF Len(f.type.s) = 0 THEN "RangeError"
    ELSE IF ~IsString(f.id) THEN "TypeError"
    ELSE IF Len(f.id.s) = 0 THEN "RangeError"
    ELSE IF ~IsBuffer(f.data) THEN "TypeError"
    ELSE IF Len(f.data.b) = 0 THEN "RangeError"
    ELSE IF ~IsFunction(f.params) THEN "TypeError"
    ELSE "none"

RECURSIVE FirstFault(_)
FirstFault(fs) ==
    IF fs = <<>> THEN "none"
    ELSE IF FactorFault(Head(fs)) # "none" THEN FactorFault(Head(fs))
    ELSE FirstFault(Tail(fs))

\* lines 117-118: (new Set(ids)).size !== ids.length
IdsUnchecked(fs) == TRUE
IdsUnique(fs) == Cardinality({fs[i].id : i \in 1..Len(fs)}) = Len(fs)

\* lines 63-118: the error setup.key throws for these arguments ("none" if
\* it throws nothing), `o` being the options merged over the defaults with
\* id, threshold and salt already defaulted
ValidationError(fs, o) ==
    IF fs.t # "array" THEN "TypeError"
    ELSE IF Len(fs.a) = 0 THEN "RangeError"
    ELSE IF ~IsString(o.id) THEN "TypeError"
    ELSE IF Len(o.id.s) = 0 THEN "RangeError"
    ELSE IF ~IsInteger(o.size) THEN "TypeError"
    ELSE IF ~(NumVal(o.size) > 0) THEN "RangeError"
    ELSE IF ~IsInteger(o.threshold) THEN "TypeError"
    ELSE IF ~(NumVal(o.threshold) > 0) THEN "RangeError"
    ELSE IF ~(NumVal(o.threshold) <= Len(fs.a)) THEN "RangeError"
    ELSE IF ~IsBuffer(o.salt) THEN "TypeError"
    ELSE IF FirstFault(fs.a) # "none" THEN FirstFault(fs.a)
    ELSE IF ~IdsUnique(fs.a) THEN "RangeError"
    ELSE "none"

\* lines 66-93: options over the defaults; id, threshold and salt defaulted
\* (salt is the random buffer drawn for it, used only if none was given)
MergedOptions(fs, opts, uuid, randomSalt) ==
    LET o == Assign(defaults_key, opts)
        withId == IF Get(o, "id") = Undefined THEN Assign(o, [id |-> Str(uuid)]) ELSE o
        withThreshold ==
            IF Get(withId, "threshold") = Undefined /\ fs.t = "array"
            THEN Assign(withId, [threshold |-> Num(Len(fs.a))])
            ELSE Assign([threshold |-> Undefined], withId)
    IN  IF Get(withThreshold, "salt") = Undefined
        THEN Assign(withThreshold, [salt |-> Buf(randomSalt)])
        ELSE withThreshold

NoSetup ==
    [error |-> "none", key |-> Null, secret |-> Null, shares |-> <<>>,
     outputs |-> <<>>, theoreticalEntropy |-> <<>>, realEntropy |-> <<>>,
     i |-> 0, params |-> Null, entropyBits |-> Null, returned |-> FALSE]

\* the policy record of lines 68-96, before its factors are pushed
NewPolicy(o) ==
    [schema |-> "https://mfkdf.com/schema/v1.0.0/policy.json",
     id |-> o.id.s, size |-> NumVal(o.size), threshold |-> NumVal(o.threshold),
     salt |-> toBase64(o.salt.b), kdf |-> kdfSetup(o), factors |-> <<>>]

\* the size the random salt is drawn with: policy.size when it was set
SaltSize(opts) ==
    LET o == Assign(defaults_key, opts)
    IN  IF IsInteger(o.size) /\ NumVal(o.size) > 0 THEN NumVal(o.size) ELSE 0

\* lines 62-118: arguments checked, the policy's head built
SetupValidate ==
    /\ pc = "caller"
    /\ \E randomSalt \in RandomBytes(harness.rng, SaltSize(options)) :
         LET o == MergedOptions(factors, options, "uuid-v4", randomSalt)
             err == ValidationError(factors, o)
         IN  /\ su' = [NoSetup EXCEPT !.error = err]
             /\ IF err = "none"
                THEN /\ heap' = <<NewPolicy(o)>>
                     /\ pc' = "setupGenerate"
                ELSE /\ heap' = heap
                     /\ pc' = "setupFailed"
    /\ calls' = <<>>
    /\ UNCHANGED <<harness, factors, options, dv, nDerives, kd>>

\* lines 120-123: secret drawn, key derived from it, secret shared
SetupGenerate ==
    /\ pc = "setupGenerate"
    /\ LET policy == heap[1] IN
       \E secret \in RandomBytes(harness.rng, policy.size) :
       \E coefs \in RandomBuffers(harness.rng, policy.size, policy.threshold - 1) :
         su' = [su EXCEPT
                  !.secret = Buf(secret),
                  !.key = kdf(secret, fromBase64(policy.salt), policy.size, policy.kdf),
                  !.shares = share(secret, policy.threshold, Len(factors.a), coefs),
                  !.i = 1]
    /\ pc' = "setupParams"
    /\ UNCHANGED <<harness, factors, options, heap, dv, calls, nDerives, kd>>

\* lines 138-141: the pad of a factor, its share blended with its material
SetupPad(shr, data, size) ==
    LET stretched == hkdf(data, size)
        widened == IF Len(shr) > size
                   THEN ZeroBytes(Len(shr) - size) \o stretched
                   ELSE stretched
    IN  xor(shr, widened)

\* lines 131-142: one factor's entropies recorded, its params({ key }) awaited
SetupParams ==
    /\ pc = "setupParams"
    /\ su.i <= Len(factors.a)
    /\ LET factor == factors.a[su.i] IN
         /\ su' = [su EXCEPT
                     !.theoreticalEntropy = Append(@, Len(factor.data.b) * 8),
                     !.realEntropy = Append(@, factor.entropy),
                     !.params = SetupParamsResult(factor, su.key)]
         /\ calls' = Awaited(calls, "params", su.i, su.key)
    /\ pc' = "setupOutput"
    /\ UNCHANGED <<harness, factors, options, heap, dv, nDerives, kd>>

\* lines 143-149: the factor's output() awaited, its record pushed
SetupOutput ==
    /\ pc = "setupOutput"
    /\ LET factor == factors.a[su.i]
           entry == [id |-> factor.id.s, type |-> factor.type.s,
                     pad |-> toBase64(SetupPad(su.shares[su.i], factor.data.b, heap[1].size)),
                     params |-> su.params]
       IN /\ su' = [su EXCEPT
                     !.outputs = Append(@, [id |-> factor.id.s, output |-> SetupOutputResult(factor)]),
                     !.i = @ + 1]
          /\ heap' = [heap EXCEPT ![1].factors = Append(@, entry)]
          /\ calls' = Awaited(calls, "output", su.i, Null)
    /\ pc' = IF su.i < Len(factors.a) THEN "setupParams" ELSE "setupFinish"
    /\ UNCHANGED <<harness, factors, options, dv, nDerives, kd>>

\* Array.prototype.sort((a, b) => a - b): ascending, by value
RECURSIVE SortAscending(_)
SortAscending(s) ==
    IF s = <<>> THEN <<>>
    ELSE LET k == CHOOSE k \in 1..Len(s) : \A j \in 1..Len(s) : s[k] <= s[j]
         IN  <<s[k]>> \o SortAscending([j \in 1..(Len(s) - 1) |-> IF j < k THEN s[j] ELSE s[j + 1]])

\* lines 154-158: sort((a, b) => a - b).slice(0, threshold).reduce(+, 0)
EntropySumUnsorted(list, threshold) ==
    SumSeq(SubSeq(list, 1, IF threshold < Len(list) THEN threshold ELSE Len(list)))
EntropySum(list, threshold) ==
    LET sorted == SortAscending(list)
        n == IF threshold < Len(sorted) THEN threshold ELSE Len(sorted)
    IN  SumSeq(SubSeq(sorted, 1, n))

\* lines 152-162: the result built, its entropy report computed
SetupFinish ==
    /\ pc = "setupFinish"
    /\ su' = [su EXCEPT
                !.entropyBits =
                    [theoretical |-> EntropySum(su.theoreticalEntropy, heap[1].threshold),
                     real |-> EntropySum(su.realEntropy, heap[1].threshold)],
                !.returned = TRUE]
    /\ pc' = "setupDone"
    /\ UNCHANGED <<harness, factors, options, heap, dv, calls, nDerives, kd>>

---------------------------------------------------------------------------
(* derive.key(policy, factors)                     src/unnamed/part_000   *)

\* factors[id]: the value stored under the key id, undefined if there is none
Lookup(map, id) ==
    IF \E k \in 1..Len(map) : map[k].id = id
    THEN map[CHOOSE k \in 1..Len(map) : map[k].id = id].val
    ELSE Undefined

\* line 44: factors[factor.id], for the factor at index i of the policy
SuppliedByPosition(map, policyFactors, i) == IF i <= Len(map) THEN map[i].val ELSE Undefined
SuppliedFor(map, policyFactors, i) == Lookup(map, policyFactors[i].id)

\* line 44: factors[factor.id] && typeof factors[factor.id] === 'function'
IsProducer(v) == IsFunction(v)

\* line 45: await factors[factor.id](factor.params); the material's params
\* is a callable that rotates the parameters it was given ("rotate": a
\* counter, as an HOTP factor does), one that returns them ("static", as
\* the qrcode factor does), or is missing ("none")
Material(producer, params) ==
    [type |-> producer.does.type,
     data |-> Buf(producer.does.data),
     params |-> IF producer.does.params = "none" THEN Undefined
                ELSE Function([rotation |-> producer.does.params, given |-> params])]

\* line 77: await factor({ key }), the material's params callable
Rotated(callable, key) ==
    IF callable.does.rotation = "rotate"
    THEN [counter |-> callable.does.given.counter + 1]
    ELSE callable.does.given

\* lines 53-57: the share of a factor, its pad unblended with its material
DeriveShare(pad64, data, size) ==
    LET pad == fromBase64(pad64)
        stretched == hkdf(data, size)
        widened == IF Len(pad) > size
                   THEN ZeroBytes(Len(pad) - size) \o stretched
                   ELSE stretched
    IN  xor(pad, widened)

\* lines 48-58: the share a material yields for a policy factor, or the
\* TypeError of line 51
ShareOfTypeFirst(material, factor, size) ==
    IF material.type # factor.type THEN [t |-> "TypeError"]
    ELSE IF material.type = "persisted" THEN material.data
    ELSE Buf(DeriveShare(factor.pad, material.data.b, size))
ShareOfAnyType(material, factor, size) ==
    IF material.type = "persisted" THEN material.data
    ELSE Buf(DeriveShare(factor.pad, material.data.b, size))
ShareOf(material, factor, size) ==
    IF material.type = "persisted" THEN material.data
    ELSE IF material.type # factor.type THEN [t |-> "TypeError"]
    ELSE Buf(DeriveShare(factor.pad, material.data.b, size))

\* line 68: shares.filter(x => Buffer.isBuffer(x)).length
CountedSharesRaw(shares) == Len(shares)
CountedShares(shares) == Cardinality(Present(shares))

\* lines 76-78: the params of a factor of the new policy: what the material's
\* params callable returns for the key, or the old ones if it is no function
NewParamsAssigned(factor, old, key) == IF IsFunction(factor) THEN Rotated(factor, key) ELSE Null
NewParams(factor, old, key) == IF IsFunction(factor) THEN Rotated(factor, key) ELSE old

\* line 77: the key handed to the params callable, { key }
RotationSecret(d) == d.secret
RotationKey(d) == d.key

\* line 36: ajv.validate(policySchema, policy)
PolicyValid(policy) ==
    /\ policy.size > 0
    /\ policy.threshold > 0
    /\ Len(policy.id) > 0

\* line 73: JSON.parse(JSON.stringify(policy)), a copy stored as a new object;
\* the reference of the copy
SameRef(h, ref) == ref
CloneRef(h, ref) == Len(h) + 1

\* line 73: the heap once the copy is stored
CloneInto(h, ref) ==
    LET p == h[ref]
        copy == [schema |-> p.schema, id |-> p.id, size |-> p.size,
                 threshold |-> p.threshold, salt |-> p.salt, kdf |-> p.kdf,
                 factors |-> [i \in 1..Len(p.factors) |->
                                 [id |-> p.factors[i].id, type |-> p.factors[i].type,
                                  pad |-> p.factors[i].pad, params |-> p.factors[i].params]]]
        to == CloneRef(h, ref)
    IN  IF to > Len(h) THEN Append(h, copy) ELSE [h EXCEPT ![to] = copy]

NoDerive ==
    [policy |-> 0, factors |-> <<>>, error |-> "none", shares |-> <<>>,
     newFactors |-> <<>>, i |-> 0, secret |-> Null, key |-> Null,
     newPolicy |-> 0, originalShares |-> <<>>, returned |-> FALSE]

\* the policy the caller holds: the one setup.key returned, then the one the
\* last derive.key returned
CurrentPolicy == Len(heap)

\* a derive-side producer: the type and data of the material it returns and
\* the kind of its params callable
Producer(type, data, rotation) == Function([type |-> type, data |-> data, params |-> rotation])

OtherType(type) == IF type = "password" THEN "qrcode" ELSE "password"

ProducerKinds ==
    {"absent", "rotate", "static", "plain", "wrongType", "persisted", "notCallable"}

\* the value a caller of kind `kind` stores for the factor at index i
Supplied(kind, i) ==
    LET f == factors.a[i] IN
    CASE kind = "rotate" -> Producer(f.type.s, f.data.b, "rotate")
      [] kind = "static" -> Producer(f.type.s, f.data.b, "static")
      [] kind = "plain" -> Producer(f.type.s, f.data.b, "none")
      [] kind = "wrongType" -> Producer(OtherType(f.type.s), f.data.b, "rotate")
      [] kind = "persisted" -> Producer("persisted", su.shares[i], "none")
      [] kind = "notCallable" -> Str("secret")

RECURSIVE Orderings(_)
Orderings(S) ==
    IF S = {} THEN {<<>>}
    ELSE UNION {{<<x>> \o p : p \in Orderings(S \ {x})} : x \in S}

\* the entries of a factor map, in the policy's order, unknown ids last
Entries(choice, unknown) ==
    LET n == Len(factors.a)
        known == {i \in 1..n : choice[i] # "absent"}
        entry(i) == IF i <= n
                    THEN [id |-> factors.a[i].id.s, val |-> Supplied(choice[i], i)]
                    ELSE [id |-> "unknown", val |-> Producer("password", <<1>>, "rotate")]
    IN  [entries |-> [i \in known \cup (IF unknown THEN {n + 1} ELSE {}) |-> entry(i)]]

\* the factor maps the caller may pass: one kind per factor, an entry under
\* an unknown id or none, inserted in any order the harness allows
FactorMaps ==
    LET n == Len(factors.a) IN
    UNION {
      LET e == Entries(choice, unknown).entries
          orders == IF harness.orders = "all"
                    THEN Orderings(DOMAIN e)
                    ELSE {p \in Orderings(DOMAIN e) : \A j \in 1..(Len(p) - 1) : p[j] < p[j + 1]}
      IN  {[k \in 1..Len(p) |-> e[p[k]]] : p \in orders}
      : choice \in [1..n -> harness.kinds], unknown \in harness.unknown}

\* lines 34-41: policy validated, the count of keys checked
DeriveStart ==
    /\ pc \in {"setupDone", "deriveDone"}
    /\ nDerives < harness.derives
    /\ \E map \in FactorMaps :
         LET policy == heap[CurrentPolicy]
             err == IF ~PolicyValid(policy) THEN "TypeError"
                    ELSE IF Len(map) < policy.threshold THEN "RangeError"
                    ELSE "none"
         IN  /\ dv' = [NoDerive EXCEPT !.policy = CurrentPolicy, !.factors = map,
                                       !.error = err, !.i = 1]
             /\ pc' = IF err = "none" THEN "deriveProducer" ELSE "deriveFailed"
    /\ calls' = <<>>
    /\ nDerives' = nDerives + 1
    /\ UNCHANGED <<harness, factors, options, su, heap, kd>>

\* lines 43-66, one factor: its producer awaited, its share computed
DeriveProducer ==
    /\ pc = "deriveProducer"
    /\ LET policy == heap[dv.policy]
           factor == policy.factors[dv.i]
           v == SuppliedFor(dv.factors, policy.factors, dv.i)
           last == dv.i = Len(policy.factors)
       IN  IF IsProducer(v)
           THEN LET material == Material(v, factor.params)
                    shr == ShareOf(material, factor, policy.size)
                IN  /\ calls' = Awaited(calls, "producer", dv.i, Null)
                    /\ IF shr.t = "TypeError"
                       THEN /\ dv' = [dv EXCEPT !.error = "TypeError"]
                            /\ pc' = "deriveFailed"
                       ELSE /\ dv' = [dv EXCEPT !.shares = Append(@, shr),
                                                !.newFactors = Append(@, material.params),
                                                !.i = @ + 1]
                            /\ pc' = IF last THEN "deriveCombine" ELSE "deriveProducer"
           ELSE /\ dv' = [dv EXCEPT !.shares = Append(@, Null),
                                    !.newFactors = Append(@, Null),
                                    !.i = @ + 1]
                /\ pc' = IF last THEN "deriveCombine" ELSE "deriveProducer"
                /\ calls' = calls
    /\ UNCHANGED <<harness, factors, options, su, heap, nDerives, kd>>

\* lines 68-73: shares counted and combined, the key derived, the policy cloned
DeriveCombine ==
    /\ pc = "deriveCombine"
    /\ LET policy == heap[dv.policy] IN
       IF CountedShares(dv.shares) < policy.threshold
       THEN /\ dv' = [dv EXCEPT !.error = "RangeError"]
            /\ pc' = "deriveFailed"
            /\ heap' = heap
       ELSE LET secret == combine(dv.shares, policy.threshold, Len(policy.factors))
            IN  /\ dv' = [dv EXCEPT
                            !.secret = Buf(secret),
                            !.key = kdf(secret, fromBase64(policy.salt), policy.size, policy.kdf),
                            !.newPolicy = CloneRef(heap, dv.policy),
                            !.i = 1]
                /\ heap' = CloneInto(heap, dv.policy)
                /\ pc' = "deriveRotate"
    /\ UNCHANGED <<harness, factors, options, su, calls, nDerives, kd>>

\* lines 75-79, one entry of newFactors: a params callable is awaited with
\* the key and its result stored in the new policy
DeriveRotate ==
    /\ pc = "deriveRotate"
    /\ LET factor == dv.newFactors[dv.i]
           last == dv.i = Len(dv.newFactors)
       IN  /\ heap' = [heap EXCEPT ![dv.newPolicy].factors[dv.i].params =
                                      NewParams(factor, @, RotationKey(dv))]
           /\ calls' = IF IsFunction(factor)
                       THEN Awaited(calls, "rotate", dv.i, RotationKey(dv))
                       ELSE calls
           /\ dv' = [dv EXCEPT !.i = @ + 1]
           /\ pc' = IF last THEN "deriveFinish" ELSE "deriveRotate"
    /\ UNCHANGED <<harness, factors, options, su, nDerives, kd>>

\* lines 81-83: the missing shares recovered, the derived key returned
DeriveFinish ==
    /\ pc = "deriveFinish"
    /\ LET policy == heap[dv.policy] IN
       dv' = [dv EXCEPT
                !.originalShares = recover(dv.shares, policy.threshold, Len(policy.factors)),
                !.returned = TRUE]
    /\ pc' = "deriveDone"
    /\ UNCHANGED <<harness, factors, options, su, heap, calls, nDerives, kd>>

---------------------------------------------------------------------------
(* kdf(input, salt, options)                              src/test/kdf.js *)

KdfCall ==
    /\ pc = "caller"
    /\ kd' = [kd EXCEPT !.result = kdfOptions(kd.input, kd.salt, kd.options)]
    /\ pc' = "kdfDone"
    /\ UNCHANGED <<harness, factors, options, su, heap, dv, calls, nDerives>>

---------------------------------------------------------------------------
(* The callers: what a run is started with *)

FactorIds == <<"password", "hotp", "recovery", "qrcode", "hmacsha1", "totp", "question">>

TypeAt(i) == IF i % 2 = 1 THEN "password" ELSE "qrcode"
DataOf(i, len) == [k \in 1..len |-> (i + 2 * k) % (GFOrder + 1)]

\* a setup factor as the factor constructions build it (part_002 lines 232-243, 285-302)
Factor(type, id, data, entropy) ==
    [type |-> type, id |-> id, data |-> data, entropy |-> entropy,
     params |-> Function("params"), output |-> Function("output")]

PlainFactor(i) == Factor(Str(TypeAt(i)), Str(FactorIds[i]), Buf(DataOf(i, 1 + (i % 2))), i % 2)
PlainFactors(n) == Arr([i \in 1..n |-> PlainFactor(i)])

PlainOptions(t) == [size |-> Num(1), threshold |-> Num(t), salt |-> Buf(<<3>>), kdf |-> "pbkdf2"]

NoKdf == [input |-> "test", salt |-> "", options |-> [kdf |-> "pbkdf2"], result |-> Null]

Harness(name, rng, kinds, unknown, orders) ==
    [name |-> name, rng |-> rng, kinds |-> kinds, unknown |-> unknown, orders |-> orders,
     derives |-> 1]

\* the state a run starts in: the caller holds these arguments
Start(h, fs, o, k) ==
    /\ harness = h
    /\ factors = fs
    /\ options = o
    /\ kd = k
    /\ pc = "caller"
    /\ su = NoSetup
    /\ heap = <<>>
    /\ dv = NoDerive
    /\ calls = <<>>
    /\ nDerives = 0

\* setup with every secret and polynomial, derive with any subset of the factors
RoundTripRuns ==
    \E n \in 1..MaxFactors, t \in 1..MaxFactors :
        Start(Harness("roundtrip", Byte, {"absent", "rotate"}, {FALSE}, "policy"),
              PlainFactors(n), PlainOptions(t), NoKdf)

\* one secret and polynomial, derive with every kind of producer
DeriveRuns ==
    \E n \in 1..MaxFactors, t \in 1..MaxFactors :
        Start(Harness("derive", {5}, ProducerKinds, {FALSE}, "policy"),
              PlainFactors(n), PlainOptions(t), NoKdf)

\* factor maps with a key that is the id of no factor, and entries that are no functions
UnknownRuns ==
    \E n \in 1..MaxFactors, t \in 1..MaxFactors :
        Start(Harness("unknown", {5}, {"absent", "rotate", "notCallable"}, {TRUE}, "policy"),
              PlainFactors(n), PlainOptions(t), NoKdf)

\* factor maps whose entries were inserted in every order
OrderRuns ==
    \E n \in 1..MaxFactors, t \in 1..MaxFactors :
        Start(Harness("orders", {5}, {"absent", "rotate"}, BOOLEAN, "all"),
              PlainFactors(n), PlainOptions(t), NoKdf)

\* derive.key called again and again, each time on the policy the last call returned
RotationRuns ==
    \E n \in 1..MaxFactors, t \in 1..MaxFactors :
        Start([Harness("rotation", {5}, {"absent", "rotate"}, {FALSE}, "policy")
                   EXCEPT !.derives = MaxDerives],
              PlainFactors(n), PlainOptions(t), NoKdf)

\* a factor list with one factor whose type is the string "persisted"
TypedFactors(n, p) ==
    Arr([i \in 1..n |-> IF i = p THEN [PlainFactor(i) EXCEPT !.type = Str("persisted")]
                        ELSE PlainFactor(i)])

TypeRuns ==
    \E n \in 1..MaxFactors, t \in 1..MaxFactors, p \in 1..MaxFactors :
        Start(Harness("types", {5}, {"absent", "rotate"}, {FALSE}, "policy"),
              TypedFactors(n, p), PlainOptions(t), NoKdf)

\* factor lists of every entropy, the data one or two bytes long by turns;
\* no derive.key call
EntropyFactors(first, ent) ==
    Arr([i \in DOMAIN ent |->
            Factor(Str(TypeAt(i)), Str(FactorIds[i]), Buf(DataOf(i, 1 + ((i + first) % 2))), ent[i])])

EntropyRuns ==
    \E n \in 1..MaxFactors :
    \E first \in {0, 1}, ent \in [1..n -> 0..MaxEntropy], t \in 0..n :
        Start(Harness("entropy", {5}, {}, {FALSE}, "policy"), EntropyFactors(first, ent),
              IF t = 0 THEN [size |-> Num(1), salt |-> Buf(<<3>>)] ELSE PlainOptions(t), NoKdf)

\* arguments setup.key must reject, and valid ones beside them
BadFactors(n) ==
    LET base == PlainFactors(n).a
        with(i, f) == Arr([base EXCEPT ![i] = f])
    IN  UNION {
          { with(i, [base[i] EXCEPT !.type = Str("")]),
            with(i, [base[i] EXCEPT !.type = Undefined]),
            with(i, [base[i] EXCEPT !.id = Str("")]),
            with(i, [base[i] EXCEPT !.id = Num(i)]),
            with(i, [base[i] EXCEPT !.data = Buf(<<>>)]),
            with(i, [base[i] EXCEPT !.data = Str("data")]),
            with(i, [base[i] EXCEPT !.params = Undefined]),
            with(i, [base[i] EXCEPT !.id = base[((i % n) + 1)].id]) }
          : i \in 1..n }

ValidationFactors ==
    {Undefined, Str("factors"), Arr(<<>>)}
        \cup {PlainFactors(n) : n \in 1..MaxFactors}
        \cup UNION {BadFactors(n) : n \in 1..MaxFactors}

Optional(name, values) == {<<>>} \cup {[k \in {name} |-> v] : v \in values}

\* options with one of them left out, or not what setup.key asks for
ValidationOptions ==
    LET o == [id |-> Str("key"), size |-> Num(1), threshold |-> Num(1), salt |-> Buf(<<3>>)]
        without(k) == [x \in DOMAIN o \ {k} |-> o[x]]
    IN  {o, without("id"), without("threshold"), without("salt")}
        \cup {[o EXCEPT !.id = v] : v \in {Str(""), Num(7), Undefined}}
        \cup {[o EXCEPT !.size = v] : v \in {Num(0), Num(-1), Half(3), Str("1"), Undefined}}
        \cup {[o EXCEPT !.threshold = v] :
                v \in {Num(t) : t \in 0..(MaxFactors + 1)} \cup {Half(3), Str("2"), Undefined}}
        \cup {[o EXCEPT !.salt = v] : v \in {Str("salt"), Undefined}}

ValidationRuns ==
    \E fs \in ValidationFactors, o \in ValidationOptions :
        Start(Harness("validation", {5}, {"rotate"}, {FALSE}, "policy"), fs, o, NoKdf)

\* kdf() calls with any of its options given or left out
KdfRuns ==
    \E i \in {"test", "password"}, s \in {"", "salt"} :
    \E a \in Optional("kdf", {"pbkdf2", "bcrypt", "argon2id"}),
       b \in Optional("size", {32, 16}),
       c \in Optional("pbkdf2rounds", {310000, 25555}),
       d \in Optional("pbkdf2digest", {"sha256", "sha1"}),
       e \in Optional("bcryptrounds", {10, 11}) :
        Start(Harness("kdf", {5}, {"rotate"}, {FALSE}, "policy"), PlainFactors(1), PlainOptions(1),
              [input |-> i, salt |-> s, result |-> Null,
               options |-> Assign(Assign(Assign(Assign(a, b), c), d), e)])

Init ==
    \/ RoundTripRuns
    \/ DeriveRuns
    \/ UnknownRuns
    \/ OrderRuns
    \/ RotationRuns
    \/ TypeRuns
    \/ EntropyRuns
    \/ ValidationRuns
    \/ KdfRuns

Next ==
    \/ SetupValidate
    \/ SetupGenerate
    \/ SetupParams
    \/ SetupOutput
    \/ SetupFinish
    \/ DeriveStart
    \/ DeriveProducer
    \/ DeriveCombine
    \/ DeriveRotate
    \/ DeriveFinish
    \/ KdfCall

Spec == Init /\ [][Next]_vars

---------------------------------------------------------------------------
(* Properties *)

\* the setup factor stored under id, if any
SetupIndex(id) == {i \in 1..Len(factors.a) : factors.a[i].id.s = id}

\* a factor map entry that supplies a setup factor with its type and its data
MatchingEntry(e) ==
    /\ IsFunction(e.val)
    /\ \E i \in SetupIndex(e.id) :
         /\ e.val.does.type = factors.a[i].type.s
         /\ e.val.does.data = factors.a[i].data.b

\* derive.key was called on the policy of setup.key with at least threshold
\* of the setup factors, each with its type and its data, and nothing else
SuppliedSubset ==
    /\ dv.policy = 1
    /\ \A k \in 1..Len(dv.factors) : MatchingEntry(dv.factors[k])
    /\ Len(dv.factors) >= heap[1].threshold

\* C1: derive.key on the policy of setup.key, given at least threshold of the
\* setup factors with matching types and the same data, returns the key and
\* the secret that setup.key returned
C1_RoundTrip ==
    /\ (pc = "deriveFailed" => ~SuppliedSubset)
    /\ (pc = "deriveDone" /\ SuppliedSubset =>
            /\ dv.key = su.key
            /\ dv.secret = su.secret)

\* the round trip for factor lists in which no factor has the type "persisted"
RoundTripOfPlainTypes ==
    pc \in {"deriveDone", "deriveFailed"} =>
    (\E i \in 1..Len(factors.a) : factors.a[i].type = Str("persisted")) \/ C1_RoundTrip

\* a derive.key call is running or has ended
Deriving == pc \in {"deriveProducer", "deriveCombine", "deriveRotate", "deriveFinish",
                    "deriveDone", "deriveFailed"}

\* the derive.key call got past the check of line 68
Combined == pc \in {"deriveRotate", "deriveFinish", "deriveDone"}

\* the entries of the factor map stored under the id of policy factor i
EntriesFor(i) ==
    {k \in 1..Len(dv.factors) : dv.factors[k].id = heap[dv.policy].factors[i].id}

\* the policy factors the map holds a callable producer for
Usable == {i \in 1..Len(heap[dv.policy].factors) :
              \E k \in EntriesFor(i) : IsFunction(dv.factors[k].val)}

\* the policy factors that ended up with a share other than null
NonNull == {i \in 1..Len(dv.shares) : dv.shares[i] # Null}

\* the loop over the policy's factors ran to its end
Collected == Len(dv.shares) = Len(heap[dv.policy].factors)

InsufficientShares ==
    /\ pc = "deriveFailed"
    /\ dv.error = "RangeError"
    /\ ~dv.returned
    /\ dv.key = Null
    /\ dv.newPolicy = 0

\* C2: derive.key fails with InsufficientShares, a RangeError, and returns
\* nothing whenever the factor map has fewer keys than the threshold, and
\* whenever the loop over the policy's factors ends with fewer than threshold
\* shares that are not null: keys that match no factor id and entries that
\* are not callable yield no share
C2_InsufficientShares ==
    Deriving =>
        /\ Len(dv.factors) < heap[dv.policy].threshold => InsufficientShares /\ calls = <<>>
        /\ Collected /\ pc # "deriveCombine" /\ Cardinality(NonNull) < heap[dv.policy].threshold
                => InsufficientShares
        /\ Collected => NonNull \subseteq Usable
        /\ Combined => Cardinality(Usable) >= heap[dv.policy].threshold

C2_Witness ==
    /\ InsufficientShares
    /\ Collected
    /\ Len(dv.factors) >= heap[dv.policy].threshold
    /\ \E k \in 1..Len(dv.factors) : SetupIndex(dv.factors[k].id) = {}
    /\ \E k \in 1..Len(dv.factors) : ~IsFunction(dv.factors[k].val)

\* the producer of policy factor i returns material whose type is neither
\* "persisted" nor the type of the policy factor
Mismatched(i) ==
    \E k \in EntriesFor(i) :
        /\ IsFunction(dv.factors[k].val)
        /\ dv.factors[k].val.does.type # "persisted"
        /\ dv.factors[k].val.does.type # heap[dv.policy].factors[i].type

FactorTypeMismatch ==
    /\ pc = "deriveFailed"
    /\ dv.error = "TypeError"
    /\ ~dv.returned
    /\ dv.key = Null
    /\ dv.newPolicy = 0

\* C3: once a producer has returned material whose type is neither
\* "persisted" nor the type of its policy factor, derive.key has failed with
\* FactorTypeMismatch, a TypeError, and returns nothing, whatever else the
\* factor map holds
C3_TypeMismatch ==
    Deriving =>
        \A c \in 1..Len(calls) :
            calls[c].fn = "producer" /\ Mismatched(calls[c].i) => FactorTypeMismatch

\* a mismatch, in a map that holds enough other valid factors
C3_Witness ==
    /\ FactorTypeMismatch
    /\ Cardinality({i \in Usable : ~Mismatched(i)}) >= heap[dv.policy].threshold

\* the shares derive.key computes for a factor map, by policy index
SharesFor(map) ==
    LET policy == heap[dv.policy] IN
    [i \in 1..Len(policy.factors) |->
        LET v == SuppliedFor(map, policy.factors, i) IN
        IF IsProducer(v)
        THEN ShareOf(Material(v, policy.factors[i].params), policy.factors[i], policy.size)
        ELSE Null]

\* C4: the shares, the secret and the key of a derive.key call are those of
\* every other insertion order of the same entries, and the share of a
\* factor sits at the factor's index in policy.factors
C4_OrderIndependence ==
    pc = "deriveDone" =>
        LET policy == heap[dv.policy]
            shares == SharesFor(dv.factors)
            secret == combine(shares, policy.threshold, Len(policy.factors))
        IN
        /\ \A p \in Orderings(1..Len(dv.factors)) :
             SharesFor([k \in 1..Len(p) |-> dv.factors[p[k]]]) = shares
        /\ shares = dv.shares
        /\ Buf(secret) = dv.secret
        /\ kdf(secret, fromBase64(policy.salt), policy.size, policy.kdf) = dv.key
        /\ recover(shares, policy.threshold, Len(policy.factors)) = dv.originalShares
        /\ \A i \in 1..Len(policy.factors) : IsBuffer(dv.shares[i]) <=> i \in Usable

\* a derivation from a map whose entries were not inserted in policy order
C4_Witness ==
    /\ pc = "deriveDone"
    /\ \E j, k \in 1..Len(dv.factors) :
         /\ j < k
         /\ \E a \in SetupIndex(dv.factors[j].id) : \E b \in SetupIndex(dv.factors[k].id) : a > b

\* C5: in the policy a successful derive.key returns, a factor that was not
\* supplied, or whose producer returned no callable params, has the params
\* it has in the input policy
C5_RotationIdempotence ==
    pc = "deriveDone" =>
        \A i \in 1..Len(heap[dv.policy].factors) :
            (i \notin Usable \/ ~IsFunction(dv.newFactors[i]))
                => heap[dv.newPolicy].factors[i].params = heap[dv.policy].factors[i].params

\* one factor left out, one supplied without a params callable, one rotated
C5_Witness ==
    /\ pc = "deriveDone"
    /\ \E i \in 1..Len(dv.newFactors) : i \notin Usable
    /\ \E i \in Usable : ~IsFunction(dv.newFactors[i])
    /\ \E i \in Usable : heap[dv.newPolicy].factors[i].params # heap[dv.policy].factors[i].params

\* C6: no step of derive.key changes the policy object it was given
C6_InputPolicyIntact ==
    [][Deriving' => /\ dv'.policy = CurrentPolicy \/ dv'.policy = dv.policy
                    /\ dv'.policy \in DOMAIN heap => heap'[dv'.policy] = heap[dv'.policy]]_vars

\* a rotation wrote new params, into the clone only
C6_Witness ==
    /\ pc = "deriveDone"
    /\ dv.newPolicy # dv.policy
    /\ \E i \in 1..Len(dv.newFactors) :
         heap[dv.newPolicy].factors[i].params # heap[dv.policy].factors[i].params

RECURSIVE SumOver(_, _)
SumOver(f, S) ==
    IF S = {} THEN 0 ELSE LET i == CHOOSE i \in S : TRUE IN f[i] + SumOver(f, S \ {i})

\* the sum of the t smallest of the values f[1], ..., f[n]: the least sum
\* any t of them have
SmallestSum(f, t) ==
    LET sums == {SumOver(f, S) : S \in {S \in SUBSET DOMAIN f : Cardinality(S) = t}}
    IN  CHOOSE m \in sums : \A x \in sums : m <= x

TheoreticalBits == [i \in 1..Len(factors.a) |-> Len(factors.a[i].data.b) * 8]
RealBits == [i \in 1..Len(factors.a) |-> factors.a[i].entropy]

\* C7: entropyBits.theoretical is the sum of the threshold smallest values of
\* 8 * (byte length of factor.data), entropyBits.real the sum of the
\* threshold smallest factor.entropy, each list ordered on its own
C7_EntropyReport ==
    pc = "setupDone" =>
        /\ su.entropyBits.theoretical = SmallestSum(TheoreticalBits, heap[1].threshold)
        /\ su.entropyBits.real = SmallestSum(RealBits, heap[1].threshold)

\* the two lists are out of order, in different ways, and not all is summed
C7_Witness ==
    /\ pc = "setupDone"
    /\ heap[1].threshold < Len(factors.a)
    /\ \E i, j \in 1..Len(factors.a) :
         /\ i < j
         /\ TheoreticalBits[i] > TheoreticalBits[j]
         /\ RealBits[i] < RealBits[j]
    /\ su.entropyBits.real # SumSeq(SubSeq(RealBits, 1, heap[1].threshold))

\* an option that was given: present and not undefined
Given(name) == Get(options, name) # Undefined

BadFactor(f) ==
    \/ ~IsString(f.type) \/ f.type = Str("")
    \/ ~IsString(f.id) \/ f.id = Str("")
    \/ ~IsBuffer(f.data) \/ f.data = Buf(<<>>)
    \/ ~IsFunction(f.params)

InvalidOptions ==
    \/ Given("id") /\ (~IsString(options.id) \/ options.id = Str(""))
    \/ Given("size") /\ (~IsInteger(options.size) \/ options.size.twice <= 0)
    \/ Given("threshold") /\ ( \/ ~IsInteger(options.threshold)
                               \/ options.threshold.twice < 2
                               \/ options.threshold.twice > 2 * Len(factors.a) )
    \/ Given("salt") /\ ~IsBuffer(options.salt)

DuplicateIds == \E i, j \in 1..Len(factors.a) : i # j /\ factors.a[i].id = factors.a[j].id

\* the arguments setup.key must reject
InvalidArguments ==
    \/ factors.t # "array"
    \/ factors.a = <<>>
    \/ InvalidOptions
    \/ \E i \in 1..Len(factors.a) : BadFactor(factors.a[i])
    \/ DuplicateIds

SetupRejected ==
    /\ pc = "setupFailed"
    /\ su.error \in {"TypeError", "RangeError"}
    /\ su.secret = Null
    /\ su.key = Null
    /\ calls = <<>>
    /\ heap = <<>>
    /\ ~su.returned

\* C8: setup.key called with an invalid argument fails with a TypeError or a
\* RangeError before a secret is generated and before any params() or
\* output() of a factor is called, and returns no policy
C8_EagerValidation ==
    InvalidArguments /\ pc \notin {"caller", "kdfDone"} => SetupRejected

\* duplicate factor ids, the last check, in otherwise valid arguments
C8_Witness ==
    /\ SetupRejected
    /\ factors.t = "array"
    /\ ~InvalidOptions
    /\ \A i \in 1..Len(factors.a) : ~BadFactor(factors.a[i])
    /\ DuplicateIds

\* the defaults documented on the options (part_002 lines 43-55)
DocumentedDefaults ==
    [size |-> 32, kdf |-> "argon2id", pbkdf2rounds |-> 310000, pbkdf2digest |-> "sha256",
     bcryptrounds |-> 10, scryptcost |-> 16384, scryptblocksize |-> 8,
     scryptparallelism |-> 1, argon2time |-> 2, argon2mem |-> 24576,
     argon2parallelism |-> 1]

C10_RotationAfterKey ==
    /\ \A c \in 1..Len(calls) :
         /\ calls[c].fn = "rotate" =>
              /\ Combined
              /\ dv.secret # Null
              /\ dv.key # Null
              /\ calls[c].key = dv.key
              /\ dv.key = kdf(dv.secret.b, fromBase64(heap[dv.policy].salt),
                              heap[dv.policy].size, heap[dv.policy].kdf)
         /\ calls[c].fn = "params" =>
              /\ su.key # Null
              /\ calls[c].key = su.key
              /\ su.key = kdf(su.secret.b, fromBase64(heap[1].salt), heap[1].size, heap[1].kdf)
    /\ pc = "deriveFailed" => \A c \in 1..Len(calls) : calls[c].fn = "producer"
    /\ pc \in {"deriveProducer", "deriveCombine"} => \A c \in 1..Len(calls) : calls[c].fn = "producer"

\* a derivation that rotated the params of a factor
C10_Witness ==
    /\ pc = "deriveDone"
    /\ \E c \in 1..Len(calls) : calls[c].fn = "rotate" /\ calls[c].key = dv.key

---------------------------------------------------------------------------
(* Callbacks one at a time *)

\* the place of a callback call in the order of its invocation: in setup.key
\* params then output factor by factor, in derive.key the producers by
\* index and after them the rotations by index
CallOrder(c) ==
    CASE c.fn = "params" -> 2 * c.i
      [] c.fn = "output" -> 2 * c.i + 1
      [] c.fn = "producer" -> c.i
      [] c.fn = "rotate" -> Len(heap[dv.policy].factors) + c.i

SameCall(a, b) == a.fn = b.fn /\ a.i = b.i

\* C11: in the log of one invocation every callback that was started has
\* completed before the next one starts, the callbacks start in the order
\* of the factors' indices, and in setup.key a factor's params() has
\* completed when its output() starts
C11_SequentialCallbacks ==
    /\ Len(calls) % 2 = 0
    /\ \A k \in 1..Len(calls) :
         IF k % 2 = 1
         THEN calls[k].ev = "start"
         ELSE calls[k].ev = "end" /\ SameCall(calls[k - 1], calls[k])
    /\ \A j, k \in 1..Len(calls) : j + 1 < k => CallOrder(calls[j]) < CallOrder(calls[k])
    /\ \A k \in 1..Len(calls) :
         calls[k].fn = "output" /\ calls[k].ev = "start" =>
            /\ k > 2
            /\ calls[k - 1] = [fn |-> "params", i |-> calls[k].i, key |-> su.key, ev |-> "end"]
    /\ pc = "setupDone" =>
         /\ Len(calls) = 4 * Len(factors.a)
         /\ \A i \in 1..Len(factors.a) :
              /\ calls[4 * i - 3].fn = "params" /\ calls[4 * i - 3].i = i
              /\ calls[4 * i - 1].fn = "output" /\ calls[4 * i - 1].i = i

\* a derivation in which two producers and two rotation callables ran
C11_Witness ==
    /\ pc = "deriveDone"
    /\ \E j, k \in 1..Len(calls) :
         j < k /\ calls[j].fn = "producer" /\ calls[k].fn = "producer" /\ calls[j].i < calls[k].i
    /\ \E j, k \in 1..Len(calls) :
         j < k /\ calls[j].fn = "rotate" /\ calls[k].fn = "rotate" /\ calls[j].i < calls[k].i

---------------------------------------------------------------------------
(* The persisted path *)

\* the entries of the factor map whose producer returns persisted material
PersistedEntries ==
    {k \in 1..Len(dv.factors) :
        IsFunction(dv.factors[k].val) /\ dv.factors[k].val.does.type = "persisted"}

\* a factor map entry that supplies a setup factor: persisted material
\* carrying the factor's setup share, or material of the factor's type
\* carrying the factor's data
ShareOrMatchingEntry(e) ==
    /\ IsFunction(e.val)
    /\ \E i \in SetupIndex(e.id) :
         IF e.val.does.type = "persisted"
         THEN e.val.does.data = su.shares[i]
         ELSE /\ e.val.does.type = factors.a[i].type.s
              /\ e.val.does.data = factors.a[i].data.b

\* derive.key was called on the policy of setup.key with at least threshold
\* such entries, one of them persisted
SuppliedWithShares ==
    /\ dv.policy = 1
    /\ PersistedEntries # {}
    /\ \A k \in 1..Len(dv.factors) : ShareOrMatchingEntry(dv.factors[k])
    /\ Len(dv.factors) >= heap[1].threshold

\* C12: the share of a factor whose producer returned persisted material is
\* the material's data, whatever the type and the pad of the policy's
\* factor, and no type error comes of it; with the setup share of a factor
\* supplied this way and threshold entries in all, derive.key returns the
\* key and the secret of setup.key
C12_PersistedPath ==
    Deriving =>
        /\ \A i \in 1..Len(heap[dv.policy].factors) : \A k \in EntriesFor(i) \cap PersistedEntries :
             /\ Len(dv.shares) >= i => dv.shares[i] = Buf(dv.factors[k].val.does.data)
             /\ pc = "deriveFailed" /\ dv.error = "TypeError" => dv.i # i
        /\ pc = "deriveFailed" => ~SuppliedWithShares
        /\ pc = "deriveDone" /\ SuppliedWithShares =>
             /\ dv.key = su.key
             /\ dv.secret = su.secret

\* a derivation from the setup share of one factor and the data of another,
\* the first of a type other than "persisted" in the policy
C12_Witness ==
    /\ pc = "deriveDone"
    /\ SuppliedWithShares
    /\ heap[1].threshold >= 2
    /\ \E k \in PersistedEntries : \E i \in SetupIndex(dv.factors[k].id) :
         /\ heap[1].factors[i].type # "persisted"
         /\ dv.shares[i] # Buf(DeriveShare(heap[1].factors[i].pad, dv.factors[k].val.does.data, heap[1].size))
    /\ \E k \in 1..Len(dv.factors) : k \notin PersistedEntries

---------------------------------------------------------------------------
(* Key stability across rotation *)

\* a policy without the params of its factors
WithoutParams(p) ==
    [schema |-> p.schema, id |-> p.id, size |-> p.size, threshold |-> p.threshold,
     salt |-> p.salt, kdf |-> p.kdf,
     factors |-> [i \in 1..Len(p.factors) |->
                     [id |-> p.factors[i].id, type |-> p.factors[i].type,
                      pad |-> p.factors[i].pad]]]

\* derive.key was given at least threshold of the setup factors, each with
\* its type and its data, and nothing else, on the policy of setup.key or on
\* a policy an earlier derive.key returned
SuppliedOriginals ==
    /\ \A k \in 1..Len(dv.factors) : MatchingEntry(dv.factors[k])
    /\ Len(dv.factors) >= heap[1].threshold

\* C13: the policy derive.key returns is its input policy but for the params
\* of supplied factors, and derive.key on the policy of setup.key or on the
\* policy a chain of derivations returned, given at least threshold of the
\* original factors, returns the key and the secret of setup.key
C13_KeyStability ==
    /\ pc = "deriveDone" =>
         /\ WithoutParams(heap[dv.newPolicy]) = WithoutParams(heap[dv.policy])
         /\ \A i \in 1..Len(heap[dv.policy].factors) :
              heap[dv.newPolicy].factors[i].params # heap[dv.policy].factors[i].params
                 => i \in Usable
    /\ pc = "deriveFailed" => ~SuppliedOriginals
    /\ pc = "deriveDone" /\ SuppliedOriginals =>
         /\ dv.key = su.key
         /\ dv.secret = su.secret

\* the same for factor lists in which no factor has the type "persisted"
KeyStabilityOfPlainTypes ==
    pc \in {"deriveDone", "deriveFailed"} =>
        (\E i \in 1..Len(factors.a) : factors.a[i].type = Str("persisted")) \/ C13_KeyStability

\* a derivation on a policy whose params an earlier derivation has rotated
DerivedAfterRotation ==
    /\ pc = "deriveDone"
    /\ SuppliedOriginals
    /\ dv.policy > 1
    /\ \E i \in 1..Len(heap[1].factors) :
         heap[dv.policy].factors[i].params # heap[1].factors[i].params

====
